---- MODULE Spec2Model ----
(***************************************************************************)
(* Model of the pipeline run controller of orchest-api:                    *)
(*   src/services/orchest-api/app/app/core/pipelines.py                    *)
(* run_pipeline_workflow drives one pipeline run: it reports the run as    *)
(* STARTED, builds and submits the Argo workflow, polls the workflow's     *)
(* nodes, translates node phases into step status updates for the tracker  *)
(* (the orchest-api), and finalises the run.                               *)
(*                                                                         *)
(* The workflow engine, the tracker, the registry and the cancellation     *)
(* probe are the environment: every call to them either returns or raises, *)
(* and what they return is any value of the small sets below.  The nodes   *)
(* of one poll are revealed one at a time as the for loop reaches them,    *)
(* any number of them; the engine does not react to the controller, so     *)
(* this is the same as fixing the whole node list when the poll returns.   *)
(*                                                                         *)
(* A second specification, GraphSpec, models the graph algebra of the      *)
(* Pipeline class of the same file: from_json, get_induced_subgraph,       *)
(* convert_to_induced_subgraph and incoming.  A step object is identified  *)
(* by its UUID (PipelineStep.__eq__ and __hash__); the lists steps,        *)
(* incoming_connections, parents and _children are kept as sets, and the   *)
(* order of a list is a choice made where the code depends on it: when the *)
(* list is pushed on the stack of incoming.                                *)
(***************************************************************************)
EXTENDS Integers, Sequences, FiniteSets, Bags, TLC

\* Bounds of the model.
NumSteps == 2
\* Number of step UUIDs a pipeline description is written over.
NumUuids == 3
\* Number of incoming connections of a pipeline description, all steps together.
MaxConnections == 3

\* Step UUIDs; None stands for Python's None.
AllSteps == 1..NumSteps
None == 0
\* The UUIDs of pipeline descriptions.
Uuids == 1..NumUuids

Phases == {"Pending", "Running", "Succeeded", "Failed", "Error", "Omitted"}
Messages == {"", "ImagePullBackOff", "ErrImagePull"}
RunStatuses == {"PENDING", "STARTED", "SUCCESS", "FAILURE", "ABORTED", "missing"}
\* Outcomes of a call to an external service.
Outcomes == {"ok", "raise"}

VARIABLES
    pc,                 \* position in run_pipeline_workflow
    SINGLE_NODE,        \* CONFIG_CLASS.SINGLE_NODE
    steps,              \* UUIDs of pipeline.steps
    parents,            \* parents[s]: UUIDs of the parents of step s
    env_uuid_to_image,  \* steps whose environment has an entry in
                        \* run_config["env_uuid_to_image"]
    steps_to_start,
    steps_to_finish,
    had_failed_steps,
    trace,              \* the update_status calls issued so far, in order
    created,            \* create_namespaced_custom_object has been called
    lookups,            \* registry service lookups made by the manifest build
    manifest,           \* the bag of tasks of the manifest the build returned
    todo,               \* steps the running "for step_uuid in steps_to_finish" has left
    exc,                \* what raised the exception the catch-all caught, or "none"
    exit,               \* why the while loop was left, or "none"
    image_pull_failed,  \* the step whose node the loop body has just handled
                        \* through lines 806-810 (phase Pending or Running,
                        \* image pull error), None otherwise
    run_status          \* the status of the record the GET of line 857 has
                        \* just returned ("missing": no status field),
                        \* "none" otherwise

run_vars == <<pc, SINGLE_NODE, steps, parents, env_uuid_to_image, steps_to_start,
              steps_to_finish, had_failed_steps, trace, created, lookups,
              manifest, todo, exc, exit, image_pull_failed, run_status>>

VARIABLES
    gpc,          \* position in the use of the Pipeline class
    description,  \* the argument of from_json: the keys of description["steps"]
                  \* and the incoming_connections of each
    pipeline,     \* the Pipeline from_json returned
    call,         \* the transform called on it, with its arguments
    stack,        \* the stack of incoming
    result        \* the Pipeline the transform returns; while incoming runs,
                  \* its set "steps" of new steps

graph_vars == <<gpc, description, pipeline, call, stack, result>>

VARIABLES
    jpc,               \* position in the round trip from_json, to_dict
    json_description,  \* the argument of from_json in full: description["steps"]
                       \* (key to step properties) and the other keys it has
    json_pipeline,     \* the Pipeline from_json returned: the PipelineStep made
                       \* for each key, and its properties
    json_dict          \* what to_dict returned

json_vars == <<jpc, json_description, json_pipeline, json_dict>>

VARIABLES
    ppc,               \* position in DeleteProject.transaction
    interactive_runs,  \* the PENDING or STARTED interactive runs of the project
                       \* in the db session
    sessions,          \* the pipelines of the project with an interactive session
    experiments,       \* the experiments of the project in the db session
    pending,           \* what the for loop at hand has still to go through
    transactions       \* the transaction calls made, as <<class, argument>>

project_vars == <<ppc, interactive_runs, sessions, experiments, pending, transactions>>

vars == <<run_vars, graph_vars, json_vars, project_vars>>

\* What an action of one use leaves alone.
not_run_vars == <<graph_vars, json_vars, project_vars>>
not_graph_vars == <<run_vars, json_vars, project_vars>>
not_json_vars == <<run_vars, graph_vars, project_vars>>
not_project_vars == <<run_vars, graph_vars, json_vars>>

\* One update_status call: the type, the uuid (None for the pipeline), the status.
Call(type, uuid, status) == [type |-> type, uuid |-> uuid, status |-> status]

update_status(status, type, uuid) == Append(trace, Call(type, uuid, status))

\* displayName of a node of the container set, as the text before the UUID
\* and the UUID: "step-<uuid>" or "<uuid>".  NoDisplayName is what
\* argo_node.get("displayName") returns for a node without the field.
NoDisplayName == [prefix |-> "", rest |-> None]
DisplayNames == {NoDisplayName} \cup [prefix : {"step-", ""}, rest : AllSteps]

\* step_uuid.replace("step-", ""): the name without its "step-".
Replace(displayName) == [displayName EXCEPT !.prefix = ""].rest

\* Node records of the two manifest shapes, with the fields the loop reads.
SingleNodes ==
    [type : {"Container", "Pod"}, displayName : DisplayNames,
     phase : Phases, message : Messages]

MultiNodes ==
    [templateName : {"step", "pipeline"}, hasInputs : BOOLEAN,
     type : {"Pod", "DAG"}, step_uuid : AllSteps \cup {None},
     phase : Phases, message : Messages]

\* Is the node passed over by the "continue"s of the loop?
Skipped(argo_node) ==
    IF SINGLE_NODE
    THEN argo_node.type # "Container"
    ELSE \/ argo_node.templateName # "step"
         \/ ~argo_node.hasInputs
         \/ argo_node.type # "Pod"

\* The step UUID the loop derives from a node, None when the field is absent.
StepUuidOf(argo_node) ==
    IF SINGLE_NODE
    THEN IF argo_node.displayName = NoDisplayName THEN None
         ELSE Replace(argo_node.displayName)
    ELSE argo_node.step_uuid

\* A check that lets every step start.
_is_step_allowed_to_runAlways(step, to_finish) == TRUE

_is_step_allowed_to_run(step, to_finish) ==
    \A s \in parents[step] : s \notin to_finish

PullError(message) == message \in {"ImagePullBackOff", "ErrImagePull"}

\* An if/elif chain that starts a step as soon as its node exists.
StatusUpdateStartsPending(step_uuid, phase, message) ==
    IF phase \in {"Pending", "Running"} /\ PullError(message) THEN "FAILURE"
    ELSE IF /\ phase \in {"Pending", "Running"}
            /\ step_uuid \in steps_to_start
            /\ _is_step_allowed_to_run(step_uuid, steps_to_finish) THEN "STARTED"
    ELSE IF phase \in {"Succeeded", "Failed", "Error"} /\ step_uuid \in steps_to_finish
         THEN (IF phase = "Succeeded" THEN "SUCCESS" ELSE "FAILURE")
    ELSE "None"

\* An if/elif chain whose first branch looks at Pending nodes only.
StatusUpdatePendingOnly(step_uuid, phase, message) ==
    IF phase = "Pending" /\ PullError(message) THEN "FAILURE"
    ELSE IF /\ phase = "Running"
            /\ step_uuid \in steps_to_start
            /\ _is_step_allowed_to_run(step_uuid, steps_to_finish) THEN "STARTED"
    ELSE IF phase \in {"Succeeded", "Failed", "Error"} /\ step_uuid \in steps_to_finish
         THEN (IF phase = "Succeeded" THEN "SUCCESS" ELSE "FAILURE")
    ELSE "None"

\* The if/elif chain computing step_status_update; "None" when no branch is taken.
\* A check that passes the phases Succeeded, Failed and Error over.
StatusUpdateNoTerminalPhase(step_uuid, phase, message) ==
    IF phase \in {"Pending", "Running"} /\ PullError(message) THEN "FAILURE"
    ELSE IF /\ phase = "Running"
            /\ step_uuid \in steps_to_start
            /\ _is_step_allowed_to_run(step_uuid, steps_to_finish) THEN "STARTED"
    ELSE "None"

\* A check that does not ask whether the step is still to start.
StatusUpdateStartsAgain(step_uuid, phase, message) ==
    IF phase \in {"Pending", "Running"} /\ PullError(message) THEN "FAILURE"
    ELSE IF /\ phase = "Running"
            /\ _is_step_allowed_to_run(step_uuid, steps_to_finish) THEN "STARTED"
    ELSE IF phase \in {"Succeeded", "Failed", "Error"} /\ step_uuid \in steps_to_finish
         THEN (IF phase = "Succeeded" THEN "SUCCESS" ELSE "FAILURE")
    ELSE "None"

StatusUpdate(step_uuid, phase, message) ==
    IF phase \in {"Pending", "Running"} /\ PullError(message) THEN "FAILURE"
    ELSE IF /\ phase = "Running"
            /\ step_uuid \in steps_to_start
            /\ _is_step_allowed_to_run(step_uuid, steps_to_finish) THEN "STARTED"
    ELSE IF phase \in {"Succeeded", "Failed", "Error"} /\ step_uuid \in steps_to_finish
         THEN (IF phase = "Succeeded" THEN "SUCCESS" ELSE "FAILURE")
    ELSE "None"

Terminal == {"FAILURE", "ABORTED", "SUCCESS"}

\* A Pipeline object: the UUIDs of its steps and, for each step, the UUIDs in
\* properties["incoming_connections"] and of the steps in parents and _children.
Pipeline(steps_, incoming_connections, parents_, _children) ==
    [steps |-> steps_, incoming_connections |-> incoming_connections,
     parents |-> parents_, _children |-> _children]

\* No Pipeline object (yet); also the empty set "steps" incoming starts with.
NoPipeline == Pipeline({}, <<>>, <<>>, <<>>)
NoDescription == [steps |-> {}, incoming_connections |-> <<>>]
NoCall == [op |-> "none", selection |-> {}, inclusive |-> FALSE]

\* The Pipeline class is not in use.
NoGraph ==
    /\ gpc = "idle"
    /\ description = NoDescription
    /\ pipeline = NoPipeline
    /\ call = NoCall
    /\ stack = <<>>
    /\ result = NoPipeline

\* No description is being loaded and dumped.
NoJson ==
    /\ jpc = "idle"
    /\ json_description = <<>>
    /\ json_pipeline = <<>>
    /\ json_dict = <<>>

\* No project is being deleted.
NoProject ==
    /\ ppc = "idle"
    /\ interactive_runs = {}
    /\ sessions = {}
    /\ experiments = {}
    /\ pending = {}
    /\ transactions = {}

Init ==
    /\ NoGraph
    /\ NoJson
    /\ NoProject
    /\ pc = "start"
    /\ SINGLE_NODE \in BOOLEAN
    /\ steps \in SUBSET AllSteps
    /\ parents \in [AllSteps -> SUBSET AllSteps]
    /\ \A s \in AllSteps : \A p \in parents[s] : p < s
    /\ \A s \in AllSteps \ steps : parents[s] = {}
    /\ env_uuid_to_image \in SUBSET steps
    /\ steps_to_start = {}
    /\ steps_to_finish = {}
    /\ had_failed_steps = FALSE
    /\ trace = <<>>
    /\ created = FALSE
    /\ lookups = 0
    /\ manifest = EmptyBag
    /\ todo = {}
    /\ exc = "none"
    /\ exit = "none"
    /\ image_pull_failed = None
    /\ run_status = "none"

\* A catch-all that sends no ABORTED for the unfinished steps.
CaughtNoFlush(kind, to_finish) ==
    /\ pc' = "except"
    /\ exc' = kind
    /\ todo' = {}

\* "except Exception as e" is entered: the catch-all starts its own
\* "for step_uuid in steps_to_finish" over the set as the try block left it.
Caught(kind, to_finish) ==
    /\ pc' = "except"
    /\ exc' = kind
    /\ todo' = to_finish

\* Lines 725-739: the pipeline STARTED update, outside the try block, then
\* the bookkeeping sets.
PutPipelineStarted ==
    /\ pc = "start"
    /\ trace' = update_status("STARTED", "pipeline", None)
    /\ \E o \in Outcomes :
         IF o = "ok"
         THEN /\ pc' = "manifest"
              /\ steps_to_start' = steps
              /\ steps_to_finish' = steps
              /\ had_failed_steps' = FALSE
         ELSE /\ pc' = "escaped"
              /\ UNCHANGED <<steps_to_start, steps_to_finish, had_failed_steps>>
    /\ image_pull_failed' = None
    /\ run_status' = "none"
    /\ UNCHANGED not_run_vars
    /\ UNCHANGED <<SINGLE_NODE, steps, parents, env_uuid_to_image,
                created,
                   lookups, manifest, todo, exc, exit>>

\* A step whose environment has no entry: the lookup is made anyway.
HasImageUnchecked(s) == TRUE

\* Line 453: run_config["env_uuid_to_image"][step.properties["environment"]]
\* finds an entry (it raises KeyError otherwise).
HasImage(s) == s \in env_uuid_to_image

\* The "step-<uuid>" of a task name or of a dependency.
StepName(uuid) == [prefix |-> "step-", rest |-> uuid]

\* A task that names no dependency.
_step_to_workflow_manifest_taskNoDependencies(step) ==
    [name |-> StepName(step),
     dependencies |-> {},
     step_uuid |-> IF SINGLE_NODE THEN None ELSE step]

\* Lines 456-535: the task of a step in either shape, with its name, its
\* dependencies (one for each step of step.parents) and, in the DAG shape, the
\* step_uuid parameter.
_step_to_workflow_manifest_task(step) ==
    [name |-> StepName(step),
     dependencies |-> {StepName(pstep) : pstep \in parents[step]},
     step_uuid |-> IF SINGLE_NODE THEN None ELSE step]

\* One lookup for a whole build.
read_namespaced_serviceOnce(tasks) == IF tasks = {} THEN 0 ELSE 1

\* Lines 446-448: the registry service lookups of the tasks a build reaches,
\* one in each call of _step_to_workflow_manifest_task.
read_namespaced_service(tasks) == Cardinality(tasks)

\* Lines 741-743: _pipeline_to_workflow_manifest builds one task per step of
\* pipeline.steps, in list order; each task looks the registry service up and
\* then reads env_uuid_to_image[environment].  built is the set of steps whose
\* task was built before the build ended.
BuildManifest ==
    /\ pc = "manifest"
    /\ \/ /\ \A s \in steps : HasImage(s)
          /\ lookups' = read_namespaced_service(steps)
          /\ manifest' = BagOfAll(_step_to_workflow_manifest_task, SetToBag(steps))
          /\ pc' = "create"
          /\ UNCHANGED <<exc, todo>>
       \/ \E s \in steps : \E built \in SUBSET ({t \in steps : HasImage(t)} \ {s}) :
             /\ lookups' = read_namespaced_service(built \cup {s})
             /\ manifest' = EmptyBag
             /\ \/ Caught("registry", steps_to_finish)
                \/ /\ ~HasImage(s)
                   /\ Caught("env_uuid_to_image", steps_to_finish)
    /\ image_pull_failed' = None
    /\ run_status' = "none"
    /\ UNCHANGED not_run_vars
    /\ UNCHANGED <<SINGLE_NODE, steps, parents, env_uuid_to_image,
                steps_to_start,
                   steps_to_finish, had_failed_steps, trace, created, exit>>

\* Lines 744-746: the workflow is submitted to the engine.
CreateWorkflow ==
    /\ pc = "create"
    /\ created' = TRUE
    /\ \E o \in Outcomes :
         IF o = "ok"
         THEN pc' = "while" /\ UNCHANGED <<exc, todo>>
         ELSE Caught("create", steps_to_finish)
    /\ image_pull_failed' = None
    /\ run_status' = "none"
    /\ UNCHANGED not_run_vars
    /\ UNCHANGED <<SINGLE_NODE, steps, parents, env_uuid_to_image,
                steps_to_start,
                   steps_to_finish, had_failed_steps, trace, lookups, manifest, exit>>

\* Line 748, condition false: the loop is not entered (again).
WhileExit ==
    /\ pc = "while"
    /\ steps_to_finish = {}
    /\ pc' = "finalize"
    /\ todo' = steps_to_finish
    /\ exit' = "while"
    /\ image_pull_failed' = None
    /\ run_status' = "none"
    /\ UNCHANGED not_run_vars
    /\ UNCHANGED <<SINGLE_NODE, steps, parents, env_uuid_to_image,
                steps_to_start,
                   steps_to_finish, had_failed_steps, trace, created, lookups, manifest, exc>>

\* Lines 748-757: the workflow is fetched from the engine.
Poll ==
    /\ pc = "while"
    /\ steps_to_finish # {}
    /\ \E o \in Outcomes :
         IF o = "ok"
         THEN pc' = "nodes" /\ UNCHANGED <<exc, todo>>
         ELSE Caught("poll", steps_to_finish)
    /\ image_pull_failed' = None
    /\ run_status' = "none"
    /\ UNCHANGED not_run_vars
    /\ UNCHANGED <<SINGLE_NODE, steps, parents, env_uuid_to_image,
                steps_to_start,
                   steps_to_finish, had_failed_steps, trace, created, lookups, manifest, exit>>

\* The nodes of the shape the submitted manifest has.
ArgoNodes == IF SINGLE_NODE THEN SingleNodes ELSE MultiNodes

\* Lines 758-785: a node the loop passes over with "continue".
SkipNode(argo_node) ==
    /\ Skipped(argo_node)
    /\ image_pull_failed' = None
    /\ run_status' = "none"
    /\ UNCHANGED <<pc, steps_to_start, steps_to_finish, had_failed_steps, trace,
                   todo, exc>>

\* Lines 766-772 and 787-796: the node lacks displayName / the step_uuid
\* parameter, "Should never happen": the loop raises.
MalformedNode(argo_node) ==
    /\ ~Skipped(argo_node)
    /\ StepUuidOf(argo_node) = None
    /\ Caught("malformed", steps_to_finish)
    /\ image_pull_failed' = None
    /\ run_status' = "none"
    /\ UNCHANGED <<steps_to_start, steps_to_finish, had_failed_steps, trace>>

\* Line 798 and lines 244-251: pipeline.get_step raises ValueError for a UUID
\* that is no step of the pipeline.
UnknownStepNode(argo_node) ==
    /\ ~Skipped(argo_node)
    /\ StepUuidOf(argo_node) # None
    /\ StepUuidOf(argo_node) \notin steps
    /\ Caught("get_step", steps_to_finish)
    /\ image_pull_failed' = None
    /\ run_status' = "none"
    /\ UNCHANGED <<steps_to_start, steps_to_finish, had_failed_steps, trace>>

\* A loop body whose STARTED update takes the step out of steps_to_finish too.
StepNodeStartedFinishes(argo_node) ==
    /\ ~Skipped(argo_node)
    /\ StepUuidOf(argo_node) \in steps
    /\ run_status' = "none"
    /\ image_pull_failed' =
           IF argo_node.phase \in {"Pending", "Running"} /\ PullError(argo_node.message)
           THEN StepUuidOf(argo_node) ELSE None
    /\ LET step_uuid == StepUuidOf(argo_node)
           step_status_update ==
               StatusUpdate(step_uuid, argo_node.phase, argo_node.message)
       IN  CASE step_status_update = "None" ->
                  UNCHANGED <<pc, steps_to_start, steps_to_finish,
                              had_failed_steps, trace, todo, exc>>
             [] step_status_update = "STARTED" ->
                  /\ steps_to_start' = steps_to_start \ {step_uuid}
                  /\ steps_to_finish' = steps_to_finish \ {step_uuid}
                  /\ trace' = update_status("STARTED", "step", step_uuid)
                  /\ UNCHANGED had_failed_steps
                  /\ \E o \in Outcomes :
                       IF o = "ok"
                       THEN UNCHANGED <<pc, todo, exc>>
                       ELSE Caught("put", steps_to_finish)
             [] step_status_update \in Terminal ->
                  /\ had_failed_steps' =
                         (had_failed_steps \/ step_status_update = "FAILURE")
                  /\ IF step_uuid \notin steps_to_finish
                     THEN \* steps_to_finish.remove raises KeyError
                          /\ Caught("remove", steps_to_finish)
                          /\ UNCHANGED <<steps_to_start, steps_to_finish, trace>>
                     ELSE /\ steps_to_finish' = steps_to_finish \ {step_uuid}
                          /\ steps_to_start' = steps_to_start \ {step_uuid}
                          /\ trace' = update_status(step_status_update, "step",
                                                    step_uuid)
                          /\ \E o \in Outcomes :
                               IF o = "ok"
                               THEN UNCHANGED <<pc, todo, exc>>
                               ELSE Caught("put", steps_to_finish \ {step_uuid})

\* Lines 798-849: a node of a step of the pipeline.
StepNode(argo_node) ==
    /\ ~Skipped(argo_node)
    /\ StepUuidOf(argo_node) \in steps
    /\ run_status' = "none"
    /\ image_pull_failed' =
           IF argo_node.phase \in {"Pending", "Running"} /\ PullError(argo_node.message)
           THEN StepUuidOf(argo_node) ELSE None
    /\ LET step_uuid == StepUuidOf(argo_node)
           step_status_update ==
               StatusUpdate(step_uuid, argo_node.phase, argo_node.message)
       IN  CASE step_status_update = "None" ->
                  UNCHANGED <<pc, steps_to_start, steps_to_finish,
                              had_failed_steps, trace, todo, exc>>
             [] step_status_update = "STARTED" ->
                  /\ steps_to_start' = steps_to_start \ {step_uuid}
                  /\ trace' = update_status("STARTED", "step", step_uuid)
                  /\ UNCHANGED <<steps_to_finish, had_failed_steps>>
                  /\ \E o \in Outcomes :
                       IF o = "ok"
                       THEN UNCHANGED <<pc, todo, exc>>
                       ELSE Caught("put", steps_to_finish)
             [] step_status_update \in Terminal ->
                  /\ had_failed_steps' =
                         (had_failed_steps \/ step_status_update = "FAILURE")
                  /\ IF step_uuid \notin steps_to_finish
                     THEN \* steps_to_finish.remove raises KeyError
                          /\ Caught("remove", steps_to_finish)
                          /\ UNCHANGED <<steps_to_start, steps_to_finish, trace>>
                     ELSE /\ steps_to_finish' = steps_to_finish \ {step_uuid}
                          /\ steps_to_start' = steps_to_start \ {step_uuid}
                          /\ trace' = update_status(step_status_update, "step",
                                                    step_uuid)
                          /\ \E o \in Outcomes :
                               IF o = "ok"
                               THEN UNCHANGED <<pc, todo, exc>>
                               ELSE Caught("put", steps_to_finish \ {step_uuid})

\* Lines 758-849: one iteration of "for argo_node in workflow_nodes.values()".
ProcessNode ==
    /\ pc = "nodes"
    /\ \E argo_node \in ArgoNodes :
         \/ SkipNode(argo_node)
         \/ MalformedNode(argo_node)
         \/ UnknownStepNode(argo_node)
         \/ StepNode(argo_node)
    /\ UNCHANGED not_run_vars
    /\ UNCHANGED <<SINGLE_NODE, steps, parents, env_uuid_to_image, created,
                   lookups, manifest, exit>>

\* Exit of the "while": the post-loop finalization starts its
\* "for step_uuid in steps_to_finish".
Break(why) ==
    /\ pc' = "finalize"
    /\ todo' = steps_to_finish
    /\ exit' = why

\* A break condition that ignores failed steps.
BreakConditionNoFailure == steps_to_finish = {}

\* Line 851: "not steps_to_finish or had_failed_steps".
BreakCondition == steps_to_finish = {} \/ had_failed_steps

\* Lines 851-852: the node list is exhausted; "if ...: break".
BreakTest ==
    /\ pc = "nodes"
    /\ IF BreakCondition
       THEN Break(IF had_failed_steps THEN "failed" ELSE "finished")
       ELSE pc' = "probe" /\ UNCHANGED <<todo, exit>>
    /\ image_pull_failed' = None
    /\ run_status' = "none"
    /\ UNCHANGED not_run_vars
    /\ UNCHANGED <<SINGLE_NODE, steps, parents, env_uuid_to_image,
                steps_to_start,
                   steps_to_finish, had_failed_steps, trace, created, lookups, manifest, exc>>

\* Lines 854-855: AbortableAsyncResult(task_id).is_aborted().
Probe ==
    /\ pc = "probe"
    /\ \E is_aborted \in {"True", "False", "raise"} :
         CASE is_aborted = "True" -> Break("aborted") /\ UNCHANGED exc
           [] is_aborted = "False" -> pc' = "get" /\ UNCHANGED <<todo, exit, exc>>
           [] is_aborted = "raise" ->
                Caught("probe", steps_to_finish) /\ UNCHANGED exit
    /\ image_pull_failed' = None
    /\ run_status' = "none"
    /\ UNCHANGED not_run_vars
    /\ UNCHANGED <<SINGLE_NODE, steps, parents, env_uuid_to_image,
                steps_to_start,
                   steps_to_finish, had_failed_steps, trace, created, lookups, manifest>>

\* A record without status field is taken as it is.
StatusOrMissing(record) == record

\* run_status.get("status", "ABORTED")
StatusOrAborted(record) ==
    IF record = "missing" THEN "ABORTED" ELSE record

\* Lines 857-870: the tracker's record of the run is read; the loop sleeps
\* and starts over unless the record is terminal.
GetRunStatus ==
    /\ pc = "get"
    /\ \E response \in RunStatuses \cup {"raise"} :
         IF response = "raise"
         THEN Caught("get", steps_to_finish) /\ UNCHANGED exit /\ run_status' = "none"
         ELSE /\ run_status' = response
              /\ IF StatusOrAborted(response) \in {"SUCCESS", "FAILURE", "ABORTED"}
                 THEN Break("tracker") /\ UNCHANGED exc
                 ELSE pc' = "while" /\ UNCHANGED <<todo, exit, exc>>
    /\ image_pull_failed' = None
    /\ UNCHANGED not_run_vars
    /\ UNCHANGED <<SINGLE_NODE, steps, parents, env_uuid_to_image,
                steps_to_start,
                   steps_to_finish, had_failed_steps, trace, created, lookups, manifest>>

\* Lines 872-880: one ABORTED update of the post-loop finalization.
FinalizeStep ==
    /\ pc = "finalize"
    /\ \E step_uuid \in todo :
         /\ trace' = update_status("ABORTED", "step", step_uuid)
         /\ \E o \in Outcomes :
              IF o = "ok"
              THEN todo' = todo \ {step_uuid} /\ UNCHANGED <<pc, exc>>
              ELSE Caught("finalize", steps_to_finish)
    /\ image_pull_failed' = None
    /\ run_status' = "none"
    /\ UNCHANGED not_run_vars
    /\ UNCHANGED <<SINGLE_NODE, steps, parents, env_uuid_to_image,
                steps_to_start,
                   steps_to_finish, had_failed_steps, created, lookups, manifest,
                   exit>>

\* A final status that counts a step filled as ABORTED as a failure.
PipelineStatusAbortedFails ==
    IF ~had_failed_steps /\ steps_to_finish = {} THEN "SUCCESS" ELSE "FAILURE"

\* Line 882.
PipelineStatus == IF ~had_failed_steps THEN "SUCCESS" ELSE "FAILURE"

\* Lines 882-889: the pipeline's terminal update of the post-loop finalization.
FinalizePipeline ==
    /\ pc = "finalize"
    /\ todo = {}
    /\ trace' = update_status(PipelineStatus, "pipeline", None)
    /\ \E o \in Outcomes :
         IF o = "ok"
         THEN pc' = "done" /\ UNCHANGED <<todo, exc>>
         ELSE Caught("finalize", steps_to_finish)
    /\ image_pull_failed' = None
    /\ run_status' = "none"
    /\ UNCHANGED not_run_vars
    /\ UNCHANGED <<SINGLE_NODE, steps, parents, env_uuid_to_image,
                steps_to_start,
                   steps_to_finish, had_failed_steps, created, lookups, manifest,
                   exit>>

\* Lines 893-901: one ABORTED update of the catch-all; an exception raised
\* here is not caught.
ExceptStep ==
    /\ pc = "except"
    /\ \E step_uuid \in todo :
         /\ trace' = update_status("ABORTED", "step", step_uuid)
         /\ \E o \in Outcomes :
              IF o = "ok"
              THEN todo' = todo \ {step_uuid} /\ UNCHANGED pc
              ELSE pc' = "escaped" /\ UNCHANGED todo
    /\ image_pull_failed' = None
    /\ run_status' = "none"
    /\ UNCHANGED not_run_vars
    /\ UNCHANGED <<SINGLE_NODE, steps, parents, env_uuid_to_image,
                steps_to_start,
                   steps_to_finish, had_failed_steps, created, lookups, manifest,
                   exc, exit>>

\* A catch-all that derives the pipeline status as the normal finalization.
ExceptStatusAsFinalize == PipelineStatus

\* Line 903: the status the catch-all gives the pipeline.
ExceptStatus == "FAILURE"

\* Lines 902-908: the pipeline FAILURE update of the catch-all.
ExceptPipeline ==
    /\ pc = "except"
    /\ todo = {}
    /\ trace' = update_status(ExceptStatus, "pipeline", None)
    /\ \E o \in Outcomes : pc' = (IF o = "ok" THEN "done" ELSE "escaped")
    /\ image_pull_failed' = None
    /\ run_status' = "none"
    /\ UNCHANGED not_run_vars
    /\ UNCHANGED <<SINGLE_NODE, steps, parents, env_uuid_to_image,
                steps_to_start,
                   steps_to_finish, had_failed_steps, created, lookups, manifest,
                   todo, exc, exit>>

Next ==
    \/ PutPipelineStarted
    \/ BuildManifest
    \/ CreateWorkflow
    \/ WhileExit
    \/ Poll
    \/ ProcessNode
    \/ BreakTest
    \/ Probe
    \/ GetRunStatus
    \/ FinalizeStep
    \/ FinalizePipeline
    \/ ExceptStep
    \/ ExceptPipeline

Spec == Init /\ [][Next]_vars

\* Lines 758-849, for a node of step s the engine reports in phase Succeeded,
\* Failed or Error while s is unfinished.
TerminalReport(s) ==
    /\ pc = "nodes"
    /\ s \in steps_to_finish
    /\ \E argo_node \in ArgoNodes :
          /\ argo_node.phase \in {"Succeeded", "Failed", "Error"}
          /\ StepUuidOf(argo_node) = s
          /\ StepNode(argo_node)
    /\ UNCHANGED not_run_vars
    /\ UNCHANGED <<SINGLE_NODE, steps, parents, env_uuid_to_image, created,
                   lookups, manifest, exit>>

\* Line 855 with a probe that answers True.
Cancelled ==
    /\ Probe
    /\ exit' = "aborted"

\* The controller keeps running: every call returns or raises, and the node
\* list of a poll pass is finite.
ControllerFair == WF_vars(Next)

\* The engine goes on reporting a terminal phase for the node of every step:
\* a step that stays unfinished over ever more poll passes is handled in one
\* of them with such a node.
EngineFair == \A s \in AllSteps : SF_vars(TerminalReport(s))

\* The probe does not answer False for ever.
ProbeFair == SF_vars(Cancelled)

\* The run with a controller that keeps running.
LiveSpec == Spec /\ ControllerFair

TypeOK ==
    /\ image_pull_failed \in steps \cup {None}
    /\ run_status \in RunStatuses \cup {"none"}
    /\ pc \in {"start", "manifest", "create", "while", "nodes", "probe", "get",
               "finalize", "except", "done", "escaped"}
    /\ steps_to_start \subseteq steps
    /\ steps_to_finish \subseteq steps
    /\ todo \subseteq steps_to_finish

\* ------------------------------------------------------------------------
\* The graph algebra of the Pipeline class.

\* The orders a list with the elements of S can have.
Orders(S) ==
    {order \in [1..Cardinality(S) -> S] : \A x \in S : \E i \in DOMAIN order : order[i] = x}

\* The connections of a description, as <<step, uuid>>.
Connections(d) ==
    {c \in d.steps \X Uuids : c[2] \in d.incoming_connections[c[1]]}

\* Pipeline descriptions: any set of keys; the incoming_connections of a step
\* are any UUIDs but its own, UUIDs that are no key included.
Descriptions ==
    {d \in [steps : SUBSET Uuids, incoming_connections : [Uuids -> SUBSET Uuids]] :
        /\ \A uuid \in Uuids :
              /\ uuid \notin d.incoming_connections[uuid]
              /\ uuid \notin d.steps => d.incoming_connections[uuid] = {}
        /\ Cardinality(Connections(d)) <= MaxConnections}

\* run_pipeline_workflow is not running.
NoRun ==
    /\ pc = "idle"
    /\ SINGLE_NODE = FALSE
    /\ steps = {}
    /\ parents = [s \in AllSteps |-> {}]
    /\ env_uuid_to_image = {}
    /\ steps_to_start = {}
    /\ steps_to_finish = {}
    /\ had_failed_steps = FALSE
    /\ trace = <<>>
    /\ created = FALSE
    /\ lookups = 0
    /\ manifest = EmptyBag
    /\ todo = {}
    /\ exc = "none"
    /\ exit = "none"
    /\ image_pull_failed = None
    /\ run_status = "none"

GraphInit ==
    /\ NoRun
    /\ NoJson
    /\ NoProject
    /\ gpc = "json"
    /\ description \in Descriptions
    /\ pipeline = NoPipeline
    /\ call = NoCall
    /\ stack = <<>>
    /\ result = NoPipeline

\* The least set that holds S and the rel-parents of its elements.
RECURSIVE AncestorsOf(_, _)
AncestorsOf(rel, S) ==
    LET more == S \cup UNION {rel[s] : s \in S \cap DOMAIN rel}
    IN  IF more = S THEN S ELSE AncestorsOf(rel, more)

\* Some step is its own ancestor.
HasCycle(rel) == \E s \in DOMAIN rel : s \in AncestorsOf(rel, rel[s])

\* A from_json that raises also for a description with a cycle.
UnknownUuidOrCycle(d) ==
    \/ \E step \in d.steps : \E uuid \in d.incoming_connections[step] : uuid \notin d.steps
    \/ HasCycle(d.incoming_connections)

\* A from_json whose lookups never raise.
UnknownUuidNever(d) == FALSE

\* Lines 213-223: is there a lookup steps[uuid] that raises KeyError?
UnknownUuid(d) ==
    \E step \in d.steps : \E uuid \in d.incoming_connections[step] : uuid \notin d.steps

\* Lines 201-233: the Pipeline from_json builds when no lookup raises.  Every
\* step gets as parents the steps its incoming_connections name, and is
\* appended to the _children of each of them.
from_json(d) ==
    Pipeline(d.steps,
             [step \in d.steps |-> d.incoming_connections[step]],
             [step \in d.steps |->
                 {uuid \in d.steps : uuid \in d.incoming_connections[step]}],
             [uuid \in d.steps |->
                 {step \in d.steps : uuid \in d.incoming_connections[step]}])

\* Pipeline.from_json(description).
FromJson ==
    /\ gpc = "json"
    /\ IF UnknownUuid(description)
       THEN gpc' = "KeyError" /\ UNCHANGED pipeline
       ELSE gpc' = "pipeline" /\ pipeline' = from_json(description)
    /\ UNCHANGED <<description, call, stack, result, not_graph_vars>>

\* Lines 294-296, 327-329, 374, 398-400: the steps of p whose UUID is in the
\* selection.
Selected(p, selection) == {step \in p.steps : step \in selection}

\* A get_induced_subgraph that copies the properties without rewriting
\* "incoming_connections".
get_induced_subgraphCopiesProperties(p, selection) ==
    LET keep_steps == Selected(p, selection)
    IN  Pipeline(keep_steps,
                 [step \in keep_steps |-> p.incoming_connections[step]],
                 [step \in keep_steps |-> p.parents[step] \cap keep_steps],
                 [step \in keep_steps |-> p._children[step] \cap keep_steps])

\* Lines 276-319.
get_induced_subgraph(p, selection) ==
    LET keep_steps == Selected(p, selection)
        new_parents == [step \in keep_steps |-> p.parents[step] \cap keep_steps]
    IN  Pipeline(keep_steps,
                 new_parents,
                 new_parents,
                 [step \in keep_steps |-> p._children[step] \cap keep_steps])

GetInducedSubgraph ==
    /\ gpc = "pipeline"
    /\ \E selection \in SUBSET Uuids :
         /\ call' = [op |-> "get_induced_subgraph", selection |-> selection,
                     inclusive |-> FALSE]
         /\ result' = get_induced_subgraph(pipeline, selection)
    /\ gpc' = "returned"
    /\ UNCHANGED <<description, pipeline, stack, not_graph_vars>>

\* Lines 321-336: the same pipeline object with the steps outside the
\* selection dropped from steps, parents and _children; the properties of
\* the steps are not touched.
convert_to_induced_subgraph(p, selection) ==
    LET keep_steps == Selected(p, selection)
    IN  Pipeline(keep_steps,
                 [step \in keep_steps |-> p.incoming_connections[step]],
                 [step \in keep_steps |-> p.parents[step] \cap keep_steps],
                 [step \in keep_steps |-> p._children[step] \cap keep_steps])

\* The call changes the pipeline in place: the result is the pipeline itself.
ConvertToInducedSubgraph ==
    /\ gpc = "pipeline"
    /\ \E selection \in SUBSET Uuids :
         /\ call' = [op |-> "convert_to_induced_subgraph", selection |-> selection,
                     inclusive |-> FALSE]
         /\ pipeline' = convert_to_induced_subgraph(pipeline, selection)
         /\ result' = pipeline'
    /\ gpc' = "returned"
    /\ UNCHANGED <<description, stack, not_graph_vars>>

\* Lines 366-374: incoming starts with steps = set() and the selected steps
\* on the stack, in the order of self.steps.
IncomingCall ==
    /\ gpc = "pipeline"
    /\ \E selection \in SUBSET Uuids : \E inclusive \in BOOLEAN :
         /\ call' = [op |-> "incoming", selection |-> selection,
                     inclusive |-> inclusive]
         /\ stack' \in Orders(Selected(pipeline, selection))
    /\ result' = NoPipeline
    /\ gpc' = "incoming"
    /\ UNCHANGED <<description, pipeline, not_graph_vars>>

\* Lines 381-391: the copy of a step that enters the set steps.  Its
\* parents are those of the step; of its _children it keeps the ones that are
\* in steps already or in the selection.
NewStep(step, steps_) ==
    Pipeline(steps_.steps \cup {step},
             (step :> pipeline.parents[step]) @@ steps_.incoming_connections,
             (step :> pipeline.parents[step]) @@ steps_.parents,
             (step :> {s \in pipeline._children[step] :
                          s \in steps_.steps \/ s \in call.selection})
                 @@ steps_._children)

\* An iteration that does not push the parents of the step.
IncomingVisitNoParents ==
    /\ gpc = "incoming"
    /\ stack # <<>>
    /\ LET step == stack[Len(stack)]
       IN  /\ stack' = SubSeq(stack, 1, Len(stack) - 1)
           /\ result' = IF step \in result.steps THEN result ELSE NewStep(step, result)
    /\ UNCHANGED <<gpc, description, pipeline, call, not_graph_vars>>

\* Lines 376-391: one iteration of "while stack".  The parents are pushed in
\* the order of the list parents, the order of incoming_connections.
IncomingVisit ==
    /\ gpc = "incoming"
    /\ stack # <<>>
    /\ LET step == stack[Len(stack)]
           popped == SubSeq(stack, 1, Len(stack) - 1)
       IN  IF step \in result.steps
           THEN stack' = popped /\ UNCHANGED result
           ELSE /\ result' = NewStep(step, result)
                /\ \E order \in Orders(pipeline.parents[step]) : stack' = popped \o order
    /\ UNCHANGED <<gpc, description, pipeline, call, not_graph_vars>>

\* An incoming that returns the selection too, whatever "inclusive" is.
steps_to_be_includedAll(steps_, selection, inclusive) == steps_

\* Lines 393-407: the steps of the returned pipeline; without the selection
\* the _children are filtered again, the parents and properties are not.
steps_to_be_included(steps_, selection, inclusive) ==
    IF inclusive THEN steps_
    ELSE LET included == steps_.steps \ Selected(pipeline, selection)
         IN  Pipeline(included,
                      [step \in included |-> steps_.incoming_connections[step]],
                      [step \in included |-> steps_.parents[step]],
                      [step \in included |-> steps_._children[step] \cap included])

\* Lines 376 and 393-410: the stack is empty, incoming returns.
IncomingReturn ==
    /\ gpc = "incoming"
    /\ stack = <<>>
    /\ result' = steps_to_be_included(result, call.selection, call.inclusive)
    /\ gpc' = "returned"
    /\ UNCHANGED <<description, pipeline, call, stack, not_graph_vars>>

\* Line 385 with lines 155-156: incoming hands step.parents to PipelineStep,
\* which keeps the list it is given, so the new step and the step of the
\* pipeline hold one list object.  get_induced_subgraph builds the parents of
\* a new step as a new list (line 309).  Both deep-copy the properties
\* (lines 308 and 381) and build _children as a new list (310, 391-395).
parents_is_step_parents(c) == c.op = "incoming"

\* The caller empties a list a step of the returned pipeline holds
\* (list.clear() on its parents, its _children or the incoming_connections of
\* its properties).  A list that is also held by a step of the source
\* pipeline is emptied there too.
Mutate ==
    /\ gpc = "returned"
    /\ call.op \in {"get_induced_subgraph", "incoming"}
    /\ \E step \in result.steps :
       \E attr \in {"incoming_connections", "parents", "_children"} :
           /\ result[attr][step] # {}
           /\ result' = [result EXCEPT ![attr][step] = {}]
           /\ pipeline' = IF attr = "parents" /\ parents_is_step_parents(call)
                              THEN [pipeline EXCEPT !.parents[step] = {}]
                              ELSE pipeline
    /\ gpc' = "mutated"
    /\ UNCHANGED <<description, call, stack, not_graph_vars>>

GraphNext ==
    \/ FromJson
    \/ GetInducedSubgraph
    \/ ConvertToInducedSubgraph
    \/ IncomingCall
    \/ IncomingVisit
    \/ IncomingReturn
    \/ Mutate

GraphSpec == GraphInit /\ [][GraphNext]_vars

IsPipeline(p) ==
    /\ p.steps \subseteq Uuids
    /\ p.incoming_connections \in [p.steps -> SUBSET Uuids]
    /\ p.parents \in [p.steps -> SUBSET Uuids]
    /\ p._children \in [p.steps -> SUBSET Uuids]

GraphTypeOK ==
    /\ gpc \in {"json", "KeyError", "pipeline", "incoming", "returned", "mutated"}
    /\ description \in Descriptions
    /\ IsPipeline(pipeline)
    /\ IsPipeline(result)
    /\ call.selection \subseteq Uuids
    /\ \A i \in DOMAIN stack : stack[i] \in pipeline.steps

----------------------------------------------------------------------------
\* The round trip from_json, to_dict, with description["steps"] as a mapping
\* from key to step properties and the other keys of the description.

\* The keys from_json reads besides "steps" (lines 225-232).
TopKeys == {"name", "uuid", "settings", "parameters", "services", "version"}

\* The value a description gives to a key, and what from_json takes when the
\* key is absent: {} for "parameters" and "services", None for "version".
Given(key) == "given " \o key
Default(key) == IF key = "version" THEN "None" ELSE "{}"

\* description["steps"] over the keys of d: the properties of a step are its
\* "uuid" and its "incoming_connections"; at most one step has a "uuid" that
\* is not its key (and in JsonInit at most one of "name", "uuid" and
\* "settings" is absent).
StepsMappings(d) ==
    {[key \in d.steps |->
         [uuid |-> uuid_of[key],
          incoming_connections |-> d.incoming_connections[key]]] :
       uuid_of \in {f \in [d.steps -> Uuids] :
                       Cardinality({key \in d.steps : f[key] # key}) <= 1}}

JsonInit ==
    /\ NoRun
    /\ NoGraph
    /\ NoProject
    /\ jpc = "json"
    /\ \E d \in Descriptions :
       \E steps_ \in StepsMappings(d) :
       \E present \in {keys \in SUBSET TopKeys :
                          Cardinality({"name", "uuid", "settings"} \ keys) <= 1} :
           json_description =
               [steps |-> steps_, properties |-> [key \in present |-> Given(key)]]
    /\ json_pipeline = <<>>
    /\ json_dict = <<>>

\* Lines 216-219 and 225-226: steps[uuid] of an incoming connection that is
\* no key of description["steps"], or description["name"], ["uuid"] or
\* ["settings"] of a description without the key.
JsonKeyError(d) ==
    \/ \E key \in DOMAIN d.steps :
           \E uuid \in d.steps[key].incoming_connections : uuid \notin DOMAIN d.steps
    \/ \E key \in {"name", "uuid", "settings"} : key \notin DOMAIN d.properties

\* Lines 225-232 where "version" is never read from the description.
PipelinePropertiesNoVersion(d) ==
    [key \in TopKeys |->
        IF key \in DOMAIN d.properties /\ key # "version"
            THEN d.properties[key] ELSE Default(key)]

\* Lines 225-232: the properties of the Pipeline.
PipelineProperties(d) ==
    [key \in TopKeys |->
        IF key \in DOMAIN d.properties THEN d.properties[key] ELSE Default(key)]

\* Pipeline.from_json(description) in full: one PipelineStep for each key,
\* holding the properties found there (lines 211-214); its parents are the
\* steps made for the keys its incoming_connections name and it is a child of
\* each of them (lines 217-220).
JsonFromJson ==
    /\ jpc = "json"
    /\ IF JsonKeyError(json_description)
       THEN jpc' = "KeyError" /\ UNCHANGED json_pipeline
       ELSE /\ jpc' = "pipeline"
            /\ json_pipeline' =
                 LET d == json_description
                     keys == DOMAIN d.steps
                 IN  [steps |-> d.steps,
                      parents |-> [key \in keys |-> d.steps[key].incoming_connections],
                      _children |-> [key \in keys |->
                          {child \in keys : key \in d.steps[child].incoming_connections}],
                      properties |-> PipelineProperties(d)]
    /\ UNCHANGED <<json_description, json_dict, not_json_vars>>

\* Lines 237-241: what to_dict can return.  description["steps"] gets the
\* properties of each step under properties["uuid"]; of two steps with one
\* uuid the later in self.steps stays.  The properties of the pipeline are
\* the other keys.
to_dict(p) ==
    LET uuids == {p.steps[key].uuid : key \in DOMAIN p.steps}
    IN  {[steps |-> [uuid \in uuids |-> p.steps[from[uuid]]],
          properties |-> p.properties] :
            from \in {f \in [uuids -> DOMAIN p.steps] :
                         \A uuid \in uuids : p.steps[f[uuid]].uuid = uuid}}

\* pipeline.to_dict().
JsonToDict ==
    /\ jpc = "pipeline"
    /\ json_dict' \in to_dict(json_pipeline)
    /\ jpc' = "dict"
    /\ UNCHANGED <<json_description, json_pipeline, not_json_vars>>

JsonNext ==
    \/ JsonFromJson
    \/ JsonToDict

JsonSpec == JsonInit /\ [][JsonNext]_vars

JsonTypeOK ==
    /\ jpc \in {"json", "KeyError", "pipeline", "dict"}
    /\ DOMAIN json_description.steps \subseteq Uuids
    /\ DOMAIN json_description.properties \subseteq TopKeys
    /\ jpc \in {"pipeline", "dict"} => DOMAIN json_pipeline.properties = TopKeys
    /\ jpc = "dict" => DOMAIN json_dict.steps \subseteq Uuids

----------------------------------------------------------------------------
\* DeleteProject.transaction(project_uuid) of apis/namespace_projects.py, as
\* Project.delete runs it.  The rows of the project are named by UUIDs.

ProjectInit ==
    /\ NoRun
    /\ NoGraph
    /\ NoJson
    /\ ppc = "start"
    /\ interactive_runs \in SUBSET Uuids
    /\ sessions \in SUBSET Uuids
    /\ experiments \in SUBSET Uuids
    /\ pending = {}
    /\ transactions = {}

\* X(self.tpe).transaction(argument) has been called.
Transaction(class, argument) == transactions \cup {<<class, argument>>}

\* Lines 36-37: an exception leaves transaction and Project.delete answers 500.
Raised ==
    /\ ppc' = "500"
    /\ UNCHANGED <<interactive_runs, sessions, experiments, pending>>

\* Lines 54-58: the query for the interactive runs.
QueryInteractiveRuns ==
    /\ ppc = "start"
    /\ pending' = interactive_runs
    /\ ppc' = "runs"
    /\ UNCHANGED <<interactive_runs, sessions, experiments, transactions,
                   not_project_vars>>

\* Lines 59-63: one run of the for loop over the interactive runs.
AbortRun ==
    /\ ppc = "runs"
    /\ \E run \in pending :
          /\ transactions' = Transaction("AbortPipelineRun", run)
          /\ \E o \in Outcomes :
               IF o = "ok"
               THEN /\ interactive_runs' = interactive_runs \ {run}
                    /\ pending' = pending \ {run}
                    /\ UNCHANGED <<ppc, sessions, experiments>>
               ELSE Raised
    /\ UNCHANGED not_project_vars

\* Lines 67-77: the query for the sessions, after the loop over the runs.
QuerySessions ==
    /\ ppc = "runs"
    /\ pending = {}
    /\ pending' = sessions
    /\ ppc' = "sessions"
    /\ UNCHANGED <<interactive_runs, sessions, experiments, transactions,
                   not_project_vars>>

\* Lines 78-82: one run of the for loop over the sessions.
StopSession ==
    /\ ppc = "sessions"
    /\ \E session \in pending :
          /\ transactions' = Transaction("StopInteractiveSession", session)
          /\ \E o \in Outcomes :
               IF o = "ok"
               THEN /\ pending' = pending \ {session}
                    /\ UNCHANGED <<ppc, interactive_runs, sessions, experiments>>
               ELSE Raised
    /\ UNCHANGED not_project_vars

\* Lines 86-92: the query for the experiments, after the loop over the
\* sessions.
QueryExperiments ==
    /\ ppc = "sessions"
    /\ pending = {}
    /\ pending' = experiments
    /\ ppc' = "experiments"
    /\ UNCHANGED <<interactive_runs, sessions, experiments, transactions,
                   not_project_vars>>

\* Line 94: DeleteExperiment(experiment.experiment_uuid) makes an object of
\* the class, with the UUID where the executor is expected; its transaction
\* is not called.
DeleteExperiment(experiment) == transactions

\* Lines 93-94: one run of the for loop over the experiments.
ConstructDeleteExperiment ==
    /\ ppc = "experiments"
    /\ \E experiment \in pending :
          /\ transactions' = DeleteExperiment(experiment)
          /\ \E o \in Outcomes :
               IF o = "ok"
               THEN /\ pending' = pending \ {experiment}
                    /\ UNCHANGED <<ppc, interactive_runs, sessions, experiments>>
               ELSE Raised
    /\ UNCHANGED not_project_vars

\* Line 97, after the loop over the experiments: the images of the project
\* are removed and transaction returns.
DeleteImages ==
    /\ ppc = "experiments"
    /\ pending = {}
    /\ transactions' = Transaction("DeleteProjectEnvironmentImages", None)
    /\ \E o \in Outcomes :
         IF o = "ok"
         THEN /\ ppc' = "200"
              /\ UNCHANGED <<interactive_runs, sessions, experiments, pending>>
         ELSE Raised
    /\ UNCHANGED not_project_vars

ProjectNext ==
    \/ QueryInteractiveRuns
    \/ AbortRun
    \/ QuerySessions
    \/ StopSession
    \/ QueryExperiments
    \/ ConstructDeleteExperiment
    \/ DeleteImages

ProjectSpec == ProjectInit /\ [][ProjectNext]_vars

ProjectTypeOK ==
    /\ ppc \in {"start", "runs", "sessions", "experiments", "200", "500"}
    /\ interactive_runs \subseteq Uuids
    /\ sessions \subseteq Uuids
    /\ experiments \subseteq Uuids
    /\ pending \subseteq Uuids
    /\ transactions \subseteq
          {"AbortPipelineRun", "StopInteractiveSession", "DeleteExperiment",
           "DeleteProjectEnvironmentImages"} \X (Uuids \cup {None})

----------------------------------------------------------------------------
\* What the tracker has been sent.

\* The statuses sent for step s, in order.
StepStatuses(s) ==
    LET OfStep(c) == c.type = "step" /\ c.uuid = s
        calls == SelectSeq(trace, OfStep)
    IN  [i \in 1..Len(calls) |-> calls[i].status]

\* The statuses sent for the pipeline, in order.
PipelineStatuses ==
    LET OfPipeline(c) == c.type = "pipeline"
        calls == SelectSeq(trace, OfPipeline)
    IN  [i \in 1..Len(calls) |-> calls[i].status]

Count(seq, S) == Cardinality({i \in 1..Len(seq) : seq[i] \in S})

Sent(s, status) == \E i \in 1..Len(trace) : trace[i] = Call("step", s, status)

FailureSent == \E s \in AllSteps : Sent(s, "FAILURE")

\* A prefix of STARTED, <terminal>, or a single terminal status.
Monotone(seq) ==
    /\ Count(seq, {"STARTED"}) <= 1
    /\ Count(seq, Terminal) <= 1
    /\ \A i \in 1..Len(seq) : seq[i] \in Terminal => i = Len(seq)

\* C1: in every execution the statuses sent for one step never move backward
\* and never repeat: at most one STARTED, at most one terminal status, and
\* nothing after the terminal status.
C1_Monotonicity == \A s \in AllSteps : Monotone(StepStatuses(s))

\* C2: when run_pipeline_workflow has finished (normal finalization or
\* catch-all), every step of the pipeline has been sent exactly one terminal
\* status, and each step left in steps_to_finish has been sent ABORTED.
C2_TerminalClosure ==
    pc = "done" =>
        /\ \A s \in steps : Count(StepStatuses(s), Terminal) = 1
        /\ \A s \in steps_to_finish : Sent(s, "ABORTED")

\* C3: the pipeline STARTED is the first tracker call; when the run has
\* finished the pipeline's terminal status is the last call, no step status
\* follows a pipeline terminal status, and exactly one pipeline terminal
\* status has been issued.
C3_PipelineFirstAndLast ==
    /\ trace # <<>> => trace[1] = Call("pipeline", None, "STARTED")
    /\ \A i \in 2..Len(trace) : trace[i] # Call("pipeline", None, "STARTED")
    /\ pc = "done" =>
        /\ trace[Len(trace)].type = "pipeline"
        /\ trace[Len(trace)].status \in {"SUCCESS", "FAILURE"}
        /\ Count(PipelineStatuses, Terminal) = 1
        /\ \A i \in 1..Len(trace) : \A j \in 1..Len(trace) :
              (trace[i].type = "pipeline" /\ trace[i].status \in Terminal
                 /\ trace[j].type = "step") => j < i

\* C4: no exception escapes run_pipeline_workflow.
C4_NoExceptionEscapes == pc # "escaped"

\* C5: the final pipeline status is FAILURE if and only if some step was
\* given a FAILURE update or the catch-all was taken; otherwise it is SUCCESS,
\* also when steps were filled as ABORTED.
C5_FinalStatus ==
    pc = "done" =>
        /\ FailureSent => had_failed_steps
        /\ had_failed_steps => (FailureSent \/ exc # "none")
        /\ trace[Len(trace)] =
              Call("pipeline", None,
                   IF FailureSent \/ exc # "none" THEN "FAILURE" ELSE "SUCCESS")

\* A run without failure or exception whose unfinished steps were filled as
\* ABORTED and whose final status is SUCCESS.
C5_Witness ==
    /\ pc = "done"
    /\ exc = "none"
    /\ \E s \in steps : Sent(s, "ABORTED")
    /\ trace[Len(trace)] = Call("pipeline", None, "SUCCESS")

Last(seq) == seq[Len(seq)]

\* The run is past the poll loop: in a finalization, or ended.
PastLoop == pc \in {"finalize", "except", "done", "escaped"}

\* The last n + 1 calls are ABORTED for each step of U, once each, then the
\* given pipeline status; no other ABORTED was sent.
FillersThen(U, status) ==
    LET n == Cardinality(U)
        k == Len(trace) - n - 1
    IN  /\ k >= 1
        /\ Last(trace) = Call("pipeline", None, status)
        /\ \A s \in U : \E i \in (k + 1)..(k + n) : trace[i] = Call("step", s, "ABORTED")
        /\ \A i \in 1..k : trace[i].status # "ABORTED"

\* C6: when the cancellation probe returns true (steps U unfinished, no step
\* failed), the loop is left for good, the tracker receives ABORTED for
\* exactly the steps of U, and then the pipeline status SUCCESS.
C6_Cancellation ==
    exit = "aborted" =>
        /\ PastLoop
        /\ ~had_failed_steps
        /\ pc = "done" => FillersThen(steps_to_finish, "SUCCESS")

\* C7: once a step has been sent FAILURE the engine is not polled again,
\* no step is sent STARTED or SUCCESS after the pass that sent it, every step
\* still unfinished is sent ABORTED and the pipeline status is FAILURE.
C7_FailureEndsLoop ==
    /\ [](FailureSent =>
            /\ pc \notin {"while", "probe", "get"}
            /\ pc = "done" =>
                 /\ \A s \in steps_to_finish : Sent(s, "ABORTED")
                 /\ Last(trace) = Call("pipeline", None, "FAILURE"))
    /\ [][(trace' # trace /\ pc # "nodes" /\ FailureSent) =>
            \/ Last(trace').status = "ABORTED"
            \/ Last(trace') = Call("pipeline", None, "FAILURE")]_vars

\* A step failed in the loop, another one was left unfinished and filled.
C7_Witness ==
    /\ pc = "done"
    /\ exit = "failed"
    /\ FailureSent
    /\ \E s \in steps : Sent(s, "ABORTED")

\* C8: if env_uuid_to_image lacks the environment of some step, the workflow
\* is never created, and the run ends with every step reported ABORTED
\* followed by pipeline FAILURE.
C8_MissingEnvironment ==
    (\E s \in steps : s \notin env_uuid_to_image) =>
        /\ ~created
        /\ pc = "done" =>
             /\ trace[1] = Call("pipeline", None, "STARTED")
             /\ Len(trace) = Cardinality(steps) + 2
             /\ FillersThen(steps, "FAILURE")

C8_Witness ==
    /\ pc = "done"
    /\ exc = "env_uuid_to_image"
    /\ Cardinality(steps) >= 2
    /\ \E s \in steps : s \in env_uuid_to_image

\* C9 as stated: a tracker PUT or GET that fails inside the poll loop does
\* not end the iteration; the loop goes on.
C9_LoopSurvivesTrackerError ==
    exc \in {"put", "get"} => pc \in {"nodes", "while", "probe", "get"}

\* C9, amended: a tracker PUT or GET that raises inside the poll loop ends
\* the loop at once; the catch-all sends ABORTED once for each step still in
\* steps_to_finish and then pipeline FAILURE, the last call of a run that
\* returns.
C9_TrackerErrorEndsLoop ==
    exc \in {"put", "get"} =>
        /\ pc \in {"except", "done", "escaped"}
        /\ exit = "none"
        /\ \A s \in AllSteps : Monotone(StepStatuses(s))
        /\ pc = "done" => FillersThen(steps_to_finish, "FAILURE")

C9_Witness ==
    /\ pc = "done"
    /\ exc = "put"
    /\ ~had_failed_steps
    /\ steps_to_finish # {}

\* C10: a considered node without its identifying field fails the run: no
\* further node is processed, every step still in steps_to_finish is sent
\* ABORTED, and the pipeline status is FAILURE.
C10_MalformedNode ==
    exc = "malformed" =>
        /\ pc \in {"except", "done", "escaped"}
        /\ exit = "none"
        /\ pc = "done" => FillersThen(steps_to_finish, "FAILURE")

C10_Witness ==
    /\ pc = "done"
    /\ exc = "malformed"
    /\ steps_to_finish # {}

\* C11 as stated: whenever the loop has handled a considered node in phase
\* Pending or Running whose message contains ImagePullBackOff or
\* ErrImagePull, the step of the node has been sent FAILURE by that
\* iteration, whatever the membership of the step in steps_to_start and
\* steps_to_finish was, and had_failed_steps is true.
C11_PullErrorFails ==
    image_pull_failed # None =>
        /\ Last(trace) = Call("step", image_pull_failed, "FAILURE")
        /\ Count(StepStatuses(image_pull_failed), Terminal) = 1
        /\ had_failed_steps

\* C11, amended: handling such a node sets had_failed_steps and leaves the
\* step in neither set; the step is sent FAILURE when it was still in
\* steps_to_finish, whether or not it was in steps_to_start; when it had
\* been given a terminal status before, nothing is sent:
\* steps_to_finish.remove raises KeyError and the catch-all is entered.
C11_PullErrorFailsUnfinished ==
    image_pull_failed # None =>
        /\ had_failed_steps
        /\ image_pull_failed \notin steps_to_start \cup steps_to_finish
        /\ Count(StepStatuses(image_pull_failed), Terminal) = 1
        /\ \/ Last(trace) = Call("step", image_pull_failed, "FAILURE")
           \/ pc = "except" /\ exc = "remove"
        /\ (pc = "except" /\ exc = "remove") => todo = steps_to_finish

\* The loop has just sent FAILURE for an image pull error of a step that had
\* been sent STARTED before, so was in steps_to_finish but not in
\* steps_to_start.
C11_Witness ==
    /\ image_pull_failed # None
    /\ pc = "nodes"
    /\ StepStatuses(image_pull_failed) = <<"STARTED", "FAILURE">>
    /\ Last(trace) = Call("step", image_pull_failed, "FAILURE")

\* The terminal status of step p was sent before call number i.
TerminalSentBefore(p, i) ==
    \E j \in 1..(i - 1) :
        trace[j].type = "step" /\ trace[j].uuid = p /\ trace[j].status \in Terminal

\* C12: a step is sent STARTED only by the handling of a node of that step in
\* phase Running, while the step is in steps_to_start and none of its parents
\* is in steps_to_finish; hence when a step is sent STARTED, each of its
\* parents that is a step of the run has been sent its terminal status.
C12_StartedOnlyWhenAllowed ==
    /\ [](\A i \in 1..Len(trace) :
            (trace[i].type = "step" /\ trace[i].status = "STARTED") =>
                \A p \in parents[trace[i].uuid] \cap steps : TerminalSentBefore(p, i))
    /\ [][\A step_uuid \in AllSteps :
            trace' = update_status("STARTED", "step", step_uuid) =>
                /\ pc = "nodes"
                /\ step_uuid \in steps_to_start
                /\ \A p \in parents[step_uuid] : p \notin steps_to_finish
                /\ \E argo_node \in ArgoNodes : StepNode(argo_node)
                /\ \A argo_node \in ArgoNodes :
                       StepNode(argo_node) =>
                           /\ StepUuidOf(argo_node) = step_uuid
                           /\ argo_node.phase = "Running"]_vars

\* A step with a parent in the run has just been sent STARTED, after the
\* SUCCESS of that parent.
C12_Witness ==
    \E step_uuid \in steps :
        /\ trace # <<>>
        /\ Last(trace) = Call("step", step_uuid, "STARTED")
        /\ \E p \in parents[step_uuid] \cap steps : Sent(p, "SUCCESS")

\* The edges A -> B between steps of the run, as <<A, B>>.
RunEdges == {e \in steps \X steps : e[1] \in parents[e[2]]}

\* C13 as stated: for an edge A -> B where the engine reports A Succeeded and
\* B in a terminal phase, A's SUCCESS is sent before B's terminal status, in
\* whatever order the engine lists the nodes.  Taken for B Succeeded.
C13_ParentSuccessFirst ==
    \A e \in RunEdges : \A i \in 1..Len(trace) : \A j \in 1..Len(trace) :
        (/\ trace[j] = Call("step", e[1], "SUCCESS")
         /\ trace[i] = Call("step", e[2], "SUCCESS")) => j < i

\* C13, amended: for an edge A -> B, A's SUCCESS is sent before B's STARTED,
\* and before B's SUCCESS or FAILURE when B has been sent STARTED.
C13_ParentSuccessBeforeStarted ==
    \A e \in RunEdges : \A i \in 1..Len(trace) : \A j \in 1..Len(trace) :
        (/\ trace[j] = Call("step", e[1], "SUCCESS")
         /\ trace[i].type = "step"
         /\ trace[i].uuid = e[2]
         /\ \/ trace[i].status = "STARTED"
            \/ trace[i].status \in {"SUCCESS", "FAILURE"} /\ Sent(e[2], "STARTED"))
        => j < i

\* On an edge A -> B, A was sent SUCCESS and B was sent STARTED and SUCCESS.
C13_Witness ==
    \E e \in RunEdges :
        /\ Sent(e[1], "SUCCESS")
        /\ StepStatuses(e[2]) = <<"STARTED", "SUCCESS">>

\* ------------------------------------------------------------------------
\* Claims about the graph algebra, checked under GraphSpec.

\* from_json has returned a Pipeline.
Accepted == gpc \in {"pipeline", "incoming", "returned", "mutated"}

\* Every UUID in the incoming_connections of the description is a key of steps.
NamesOnlySteps(d) ==
    \A step \in d.steps : d.incoming_connections[step] \subseteq d.steps

\* C14 as stated: from_json fails for every description whose
\* incoming_connections contain a cycle, so the parent relation of every
\* Pipeline it returns is acyclic.
C14_CycleRejected ==
    /\ (gpc # "json" /\ HasCycle(description.incoming_connections)) => ~Accepted
    /\ gpc = "pipeline" => ~HasCycle(pipeline.parents)

\* C14, amended: from_json makes no cycle check.  It returns a Pipeline
\* exactly for the descriptions whose incoming_connections name only keys of
\* steps, cyclic ones included, and the parents of each step of the Pipeline
\* are the steps its incoming_connections name, the _children the steps that
\* name it: the parent relation is acyclic exactly when the description is.
C14_CycleAccepted ==
    /\ gpc # "json" => (Accepted <=> NamesOnlySteps(description))
    /\ gpc = "pipeline" =>
         /\ pipeline.steps = description.steps
         /\ \A step \in pipeline.steps :
              /\ pipeline.parents[step] = description.incoming_connections[step]
              /\ pipeline.incoming_connections[step] =
                     description.incoming_connections[step]
              /\ pipeline._children[step] =
                     {s \in description.steps :
                          step \in description.incoming_connections[s]}
         /\ HasCycle(pipeline.parents) <=> HasCycle(description.incoming_connections)

\* from_json has returned a Pipeline whose parent relation has a cycle.
C14_Witness ==
    /\ gpc = "pipeline"
    /\ HasCycle(description.incoming_connections)
    /\ HasCycle(pipeline.parents)

\* C15 as stated: from_json fails with InvalidPipeline, returning no
\* Pipeline, whenever the incoming_connections of some step contain a UUID
\* that is no key of steps; in every accepted description every such UUID is
\* a step of the pipeline.
C15_UnknownUuidInvalidPipeline ==
    /\ (gpc # "json" /\ ~NamesOnlySteps(description)) =>
           /\ gpc = "InvalidPipeline"
           /\ pipeline = NoPipeline
    /\ Accepted => NamesOnlySteps(description)

\* C15, amended: the failure is the KeyError of the lookup steps[uuid];
\* no Pipeline is returned, and nothing can be called on one afterwards.
C15_UnknownUuidKeyError ==
    /\ (gpc # "json" /\ ~NamesOnlySteps(description)) =>
           /\ gpc = "KeyError"
           /\ pipeline = NoPipeline
           /\ result = NoPipeline
    /\ Accepted => NamesOnlySteps(description)
    /\ gpc = "pipeline" =>
           \A step \in pipeline.steps :
               /\ pipeline.incoming_connections[step] \subseteq pipeline.steps
               /\ pipeline.parents[step] = pipeline.incoming_connections[step]

\* from_json has raised for a description with steps, one of which names a
\* UUID that is no key, while another names a step.
C15_Witness ==
    /\ gpc = "KeyError"
    /\ \E step \in description.steps :
           description.incoming_connections[step] \ description.steps # {}
    /\ \E step \in description.steps :
           description.incoming_connections[step] \cap description.steps # {}

\* The transform op has returned.
Returned(op) == gpc = "returned" /\ call.op = op

\* C16: for a selection S of step UUIDs of the pipeline,
\* get_induced_subgraph(S) returns a pipeline whose steps are exactly the
\* steps of S, and the incoming_connections of each kept step are those it
\* had in the original pipeline that are in S.
C16_InducedSubgraph ==
    (Returned("get_induced_subgraph") /\ call.selection \subseteq pipeline.steps) =>
        /\ result.steps = call.selection
        /\ DOMAIN result.incoming_connections = call.selection
        /\ \A step \in result.steps :
               result.incoming_connections[step] =
                   description.incoming_connections[step] \cap call.selection

\* get_induced_subgraph has returned for a selection that leaves out a step;
\* a kept step lost one connection and kept another.
C16_Witness ==
    /\ Returned("get_induced_subgraph")
    /\ call.selection \subseteq pipeline.steps
    /\ \E step \in result.steps :
           /\ description.incoming_connections[step] \ call.selection # {}
           /\ result.incoming_connections[step] # {}

\* The ancestor closure of the selection in the described graph: the
\* selected steps and every step from which one of them is reachable.
AncestorClosure ==
    AncestorsOf(description.incoming_connections, call.selection \cap description.steps)

\* C17: for a pipeline and a selection S, the steps of
\* incoming(S, inclusive=True) are exactly the ancestor closure of S, S
\* included; the DAGs are among the pipelines checked.
C17_IncomingInclusive ==
    (Returned("incoming") /\ call.inclusive) =>
        /\ result.steps = AncestorClosure
        /\ DOMAIN result.parents = AncestorClosure

\* incoming(S, inclusive=True) has returned on a pipeline without cycle, with
\* an ancestor of S that is neither in S nor a parent of a step of S.
C17_Witness ==
    /\ Returned("incoming")
    /\ call.inclusive
    /\ ~HasCycle(description.incoming_connections)
    /\ \E step \in result.steps \ call.selection :
           \A s \in call.selection : step \notin description.incoming_connections[s]

\* C18: the steps of incoming(S, inclusive=False) are the steps of
\* incoming(S, inclusive=True) without the steps of S.
C18_IncomingExclusive ==
    (Returned("incoming") /\ ~call.inclusive) =>
        result.steps = AncestorClosure \ call.selection

\* The example of the claim: in 1 -> 2 -> 3 the selection {2, 3} yields {1}.
C18_Witness ==
    /\ Returned("incoming")
    /\ ~call.inclusive
    /\ description.steps = {1, 2, 3}
    /\ description.incoming_connections[1] = {}
    /\ description.incoming_connections[2] = {1}
    /\ description.incoming_connections[3] = {2}
    /\ call.selection = {2, 3}
    /\ result.steps = {1}

\* C19: after every transform (get_induced_subgraph,
\* convert_to_induced_subgraph, incoming with or without the selection), for
\* every order of traversal and of incoming_connections, the adjacency of the
\* result is symmetric: for steps T and P of the result, P is a parent of T
\* if and only if T is a child of P.  Taken for the pipelines without cycle.
C19_AdjacencySymmetry ==
    (gpc = "returned" /\ ~HasCycle(description.incoming_connections)) =>
        \A T \in result.steps : \A P \in result.steps :
            P \in result.parents[T] <=> T \in result._children[P]

\* C20: after every transform the result is closed: every UUID in the
\* incoming_connections of a step of the result, and every parent of it, is
\* a step of the result.  Taken for the pipelines without cycle.
C20_ResultClosed ==
    (gpc = "returned" /\ ~HasCycle(description.incoming_connections)) =>
        \A step \in result.steps :
            /\ result.incoming_connections[step] \subseteq result.steps
            /\ result.parents[step] \subseteq result.steps

\* What get_induced_subgraph(selection) returns on the pipeline of the
\* description (C16): the selected steps, each with the parents and children
\* it has among them, and the parents as incoming_connections.
InducedSubgraph(d, selection) ==
    LET keep == d.steps \cap selection
    IN  Pipeline(keep,
                 [step \in keep |-> d.incoming_connections[step] \cap keep],
                 [step \in keep |-> d.incoming_connections[step] \cap keep],
                 [step \in keep |-> {s \in keep : step \in d.incoming_connections[s]}])

\* C21: convert_to_induced_subgraph(S) is behaviourally identical to
\* get_induced_subgraph(S): on equal source pipelines the converted pipeline
\* has the steps, the parents and children of each step and the
\* incoming_connections of each step that the returned pipeline has, the
\* incoming_connections being the UUIDs of the parents.  Taken for the
\* pipelines without cycle.
C21_ConvertIsInduced ==
    (Returned("convert_to_induced_subgraph")
        /\ ~HasCycle(description.incoming_connections)) =>
        /\ result = InducedSubgraph(description, call.selection)
        /\ \A step \in result.steps :
               result.incoming_connections[step] = result.parents[step]

\* C22: get_induced_subgraph and incoming leave the source pipeline as
\* from_json built it (its steps and the properties, parents and children of
\* every step), and so does a later mutation of the properties or of an
\* adjacency list of a step of the returned pipeline.
C22_SourceUnchanged ==
    (gpc \in {"returned", "mutated"}
        /\ call.op \in {"get_induced_subgraph", "incoming"}) =>
        pipeline = from_json(description)

\* A valid description: every step is found under its uuid, every incoming
\* connection names a step, and "name", "uuid" and "settings" are there.
ValidDescription(d) ==
    /\ \A key \in DOMAIN d.steps :
           /\ d.steps[key].uuid = key
           /\ d.steps[key].incoming_connections \subseteq DOMAIN d.steps
    /\ {"name", "uuid", "settings"} \subseteq DOMAIN d.properties

\* C23: round trip.  For a valid description p, from_json(p) raises nothing
\* and from_json(p).to_dict() has the steps mapping of p (the same UUID keys,
\* the same properties under each) and, for "name", "uuid", "settings",
\* "parameters", "services" and "version", the value p has, or the default
\* when p has no such key.
C23_RoundTrip ==
    ValidDescription(json_description) =>
        /\ jpc # "KeyError"
        /\ jpc = "dict" =>
              /\ json_dict.steps = json_description.steps
              /\ DOMAIN json_dict.properties = TopKeys
              /\ \A key \in TopKeys :
                    json_dict.properties[key] =
                        IF key \in DOMAIN json_description.properties
                            THEN Given(key) ELSE Default(key)

\* C23 happens: a valid description with a connection, with "version" and
\* without "parameters", has been loaded and dumped.
C23_Witness ==
    /\ jpc = "dict"
    /\ ValidDescription(json_description)
    /\ \E key \in DOMAIN json_description.steps :
           json_description.steps[key].incoming_connections # {}
    /\ "version" \in DOMAIN json_description.properties
    /\ "parameters" \notin DOMAIN json_description.properties
    /\ json_dict.properties["parameters"] = "{}"

\* The manifest build has returned a manifest.
ManifestBuilt == pc = "create" \/ created

C26_ExperimentsDeleted ==
    <<"DeleteProjectEnvironmentImages", None>> \in transactions =>
        \A experiment \in experiments :
            <<"DeleteExperiment", experiment>> \in transactions

\* C27: when, after a poll pass with unfinished steps and no failure, the
\* GET record of the run has status SUCCESS, FAILURE or ABORTED, or no status
\* field, the loop is left at once (no sleep, no further poll of the engine,
\* the probe or the tracker), the unfinished steps are sent ABORTED and the
\* controller then sends its own pipeline terminal status, the last call of a
\* run that returns; SUCCESS when nothing raised.
C27_TrackerTerminalEndsLoop ==
    /\ run_status \in {"SUCCESS", "FAILURE", "ABORTED", "missing"} =>
           /\ pc = "finalize"
           /\ exit = "tracker"
           /\ todo = steps_to_finish
    /\ exit = "tracker" =>
           /\ PastLoop
           /\ ~had_failed_steps
           /\ pc = "done" =>
                /\ \A s \in steps_to_finish : Sent(s, "ABORTED")
                /\ Last(trace).type = "pipeline"
                /\ Last(trace).status \in {"SUCCESS", "FAILURE"}
                /\ exc = "none" => FillersThen(steps_to_finish, "SUCCESS")

\* C27 happens: the record had no status field while a step was unfinished,
\* and the run has returned.
C27_Witness ==
    /\ pc = "done"
    /\ exit = "tracker"
    /\ exc = "none"
    /\ steps_to_finish # {}
    /\ steps_to_finish # steps

\* C27 happens at the GET: a record without status field has just been read.
C27_WitnessMissing ==
    /\ run_status = "missing"
    /\ steps_to_finish # {}

\* C28, as stated: a step is sent SUCCESS only after STARTED; whatever the
\* polls catch of its node, the statuses sent for a succeeding step are
\* STARTED, then SUCCESS.
C28_SuccessAfterStarted ==
    \A s \in AllSteps :
        Sent(s, "SUCCESS") => StepStatuses(s) = <<"STARTED", "SUCCESS">>

\* C28, amended: the statuses sent for a succeeding step are STARTED then
\* SUCCESS, or SUCCESS alone (no poll caught its node Running while the step
\* was allowed to run); nothing follows SUCCESS and the step has left both
\* sets.
C28_SuccessIsLast ==
    \A s \in AllSteps :
        Sent(s, "SUCCESS") =>
            /\ StepStatuses(s) \in {<<"STARTED", "SUCCESS">>, <<"SUCCESS">>}
            /\ s \notin steps_to_start \cup steps_to_finish

\* C28 happens: of two steps that succeeded, one was sent STARTED first and
\* the other was not.
C28_Witness ==
    /\ pc = "done"
    /\ exc = "none"
    /\ \E s \in steps : StepStatuses(s) = <<"STARTED", "SUCCESS">>
    /\ \E s \in steps : StepStatuses(s) = <<"SUCCESS">>

\* The function has returned or an exception has left it.
Ended == pc \in {"done", "escaped"}

\* C29: termination.  When the engine goes on reporting a terminal phase for
\* the node of every step, or the probe does not answer False for ever, the
\* run leaves the poll loop and ends; when it returns, its last call is the
\* pipeline terminal status.  A pipeline without steps is never polled for,
\* and with no call raising it is sent STARTED and SUCCESS and nothing else.
C29_Termination ==
    /\ (EngineFair \/ ProbeFair) => <>Ended
    /\ [](pc = "done" =>
            /\ Last(trace).type = "pipeline"
            /\ Last(trace).status \in {"SUCCESS", "FAILURE"})
    /\ [](steps = {} =>
            /\ pc \notin {"nodes", "probe", "get"}
            /\ (pc = "done" /\ exc = "none") =>
                   trace = <<Call("pipeline", None, "STARTED"),
                             Call("pipeline", None, "SUCCESS")>>)

\* C29 happens: a run of two steps has left the loop because both finished,
\* and has returned with no call raising.
C29_Witness ==
    /\ pc = "done"
    /\ exc = "none"
    /\ exit = "finished"
    /\ Cardinality(steps) = 2
    /\ \A s \in steps : Sent(s, "SUCCESS")

\* Lines 737-739 have run: the two sets exist.
Recorded == pc # "start" /\ ~(pc = "escaped" /\ exc = "none")

\* A terminal update has been computed for s in the loop (the loop computes
\* SUCCESS and FAILURE only, and bookkeeps before it sends).
TerminalComputed(s) == Sent(s, "SUCCESS") \/ Sent(s, "FAILURE")

\* C30: bookkeeping of the control loop.  At every point of the run
\* steps_to_start is a subset of steps_to_finish, itself a subset of the step
\* UUIDs of the pipeline; a step is in steps_to_finish exactly when no
\* terminal update has been computed for it; a STARTED update takes the step
\* out of steps_to_start only: a step is in steps_to_start exactly when it is
\* in steps_to_finish and no STARTED was computed for it.
C30_Bookkeeping ==
    Recorded =>
        /\ steps_to_start \subseteq steps_to_finish
        /\ steps_to_finish \subseteq steps
        /\ \A s \in steps : s \in steps_to_finish <=> ~TerminalComputed(s)
        /\ \A s \in steps :
               s \in steps_to_start <=> (s \in steps_to_finish /\ ~Sent(s, "STARTED"))

\* C30 happens: in the loop, one step has been sent STARTED and is unfinished,
\* the other has finished.
C30_Witness ==
    /\ pc = "nodes"
    /\ \E s \in steps_to_finish : Sent(s, "STARTED")
    /\ \E s \in steps : TerminalComputed(s)
    /\ steps_to_start = {}

====
